---- MODULE Spec2Model ----
(***************************************************************************)
(* The POST /mcp handler of the RememberBook MCP server: the session       *)
(* registry `sessions`, the transports it creates, the release hooks it    *)
(* registers on the response's 'close' event, and the two awaits           *)
(* (server.connect, transport.handleRequest) at which handler executions   *)
(* of different requests interleave.  JavaScript runs each handler segment *)
(* between two awaits to completion, so one action is one such segment.    *)
(***************************************************************************)
EXTENDS Integers, FiniteSets, Sequences, TLC

\* ------------------------------------------------------------------ bounds
\* Number of HTTP requests per behaviour; request r is the r-th to arrive.
MaxReqs == 3
\* How many times the 'close' event may be delivered on one response in the
\* specification SpecDup (a redelivering emitter).
MaxCloseDeliveries == 2

\* Largest component of the version found in package.json.
MaxVer == 1
\* Largest exit status of the build process.
MaxStatus == 2

Reqs == 1..MaxReqs

\* ------------------------------------------------------------- value domains
\* req.query.sessionId: undefined when the parameter is absent, else a string.
\* Every string can be a key of the Map; a request carries undefined, or one
\* of the two session names, or (in SpecAnySid) the empty string, which
\* `!sessionId` treats like undefined.
Absent == "<undefined>"
EmptySid == ""
SidStrings == {EmptySid, "a", "b"}
SidInputs == {Absent, "a", "b"}

\* A transport is named by the request whose handler constructed it; NoT is
\* "no transport" (sessions.get returned undefined).
NoT == 0
Transports == Reqs

\* The single module-level engine `const server = new McpServer(...)`.
ServerEngine == "server"
NoEngine == "none"

VARIABLES
    sessions,    \* the Map sessions: sessionId string -> transport, NoT if no entry
    pc,          \* per request: the handler's position
    reqSid,      \* per request: the value read from req.query.sessionId
    reqT,        \* per request: the transport the handler resolved
    tKind,       \* per transport: "none" (not constructed), "stateless", "stateful"
    tBound,      \* per transport: server.connect(transport) has resolved
    tEngine,     \* per transport: the engine instance connected to it
    closeCalls,  \* per transport: number of transport.close() invocations
    drivenOn,    \* per request: transport on which handleRequest was started
    hook,        \* per response: the 'close' listener registered on it
    closeEvents, \* per response: number of 'close' events delivered
    lostClose,   \* per response: a 'close' event found no listener registered
    outcome,     \* per request: how the handler's promise settled
    response,    \* per request: the HTTP response written, "none" if none
    forwardsRejection, \* the framework answers a rejected handler promise
    bump,        \* the version bump script: its inputs, position and effects
    detail,      \* the idea-detail widget, the tool calls it made, the backend
    ideasList    \* the ideas-list widget: its widget state and the last click

vars == <<sessions, pc, reqSid, reqT, tKind, tBound, tEngine, closeCalls,
          drivenOn, hook, closeEvents, lostClose, outcome, response,
          forwardsRejection, bump, detail, ideasList>>

PcValues == {"new", "await_connect", "await_handle", "done", "rejected"}
Outcomes == {"pending", "ok", "error", "bind_rejected", "drive_rejected"}
Responses == {"none", "result", "error", "framework500"}
DriveResults == {"ok", "error", "throw"}

TypeOK ==
    /\ sessions \in [SidStrings -> Transports \cup {NoT}]
    /\ pc \in [Reqs -> PcValues]
    /\ reqSid \in [Reqs -> SidInputs \cup {EmptySid}]
    /\ reqT \in [Reqs -> Transports \cup {NoT}]
    /\ tKind \in [Transports -> {"none", "stateless", "stateful"}]
    /\ tBound \in [Transports -> BOOLEAN]
    /\ tEngine \in [Transports -> {NoEngine, ServerEngine}]
    /\ closeCalls \in [Transports -> 0..MaxCloseDeliveries]
    /\ drivenOn \in [Reqs -> Transports \cup {NoT}]
    /\ hook \in [Reqs -> {"none", "stateless", "stateful"}]
    /\ closeEvents \in [Reqs -> 0..MaxCloseDeliveries]
    /\ lostClose \in [Reqs -> BOOLEAN]
    /\ outcome \in [Reqs -> Outcomes]
    /\ response \in [Reqs -> Responses]
    /\ forwardsRejection \in BOOLEAN

\* ------------------------------------------------------------ pure helpers
\* A test for undefined alone.
IsStatelessOnlyUndefined(sid) == sid = Absent

\* `if (!sessionId)`: undefined and the empty string are both falsy.
IsStateless(sid) == sid = Absent \/ sid = ""

\* A lookup that never finds the entry.
LookupSessionMisses(sid) == NoT

\* `sessions.get(sessionId)`.
LookupSession(sid) == sessions[sid]

\* A creation that leaves the insert out.
SessionsAfterCreateDropped(sid, t) == sessions

\* A creation that puts the new transport in place of every entry.
SessionsAfterCreateReplacingAll(sid, t) ==
    [s \in SidStrings |-> IF s = sid THEN t ELSE NoT]

\* `sessions.set(sessionId, session)`, executed before `await server.connect`.
SessionsAfterCreate(sid, t) == [sessions EXCEPT ![sid] = t]

\* A release that empties the whole registry.
SessionsAfterReleaseClears(sid) == [s \in SidStrings |-> NoT]

\* A release that leaves the entry in the registry.
SessionsAfterReleaseKept(sid) == sessions

\* `sessions.delete(sessionId)` in the stateful release hook.
SessionsAfterRelease(sid) == [sessions EXCEPT ![sid] = NoT]

\* The engine passed to connect: always the module-level `server`.
EngineFor(r) == ServerEngine

\* A first segment without the early return of the stateless branch: the
\* stateless transport is registered too, under the falsy key.
SessionsAfterStartFallsThrough(r, sid) ==
    IF IsStateless(sid) THEN SessionsAfterCreate(EmptySid, r)
    ELSE IF LookupSession(sid) = NoT THEN SessionsAfterCreate(sid, r)
    ELSE sessions

\* A first segment that does not insert before the await of the bind.
SessionsAfterStartNoInsert(r, sid) == sessions

\* The registry after the handler's first synchronous segment.
SessionsAfterStart(r, sid) ==
    IF IsStateless(sid) THEN sessions
    ELSE IF LookupSession(sid) = NoT THEN SessionsAfterCreate(sid, r)
    ELSE sessions

\* A first segment that registers no listener.
HookAtStartNone(sid) == "none"

\* The listener on res 'close' after the first synchronous segment: the
\* stateless path registers it before `await server.connect`, the stateful
\* path only after that await.
HookAtStart(sid) == IF IsStateless(sid) THEN "stateless" ELSE "none"

\* The listener on res 'close' once server.connect has resolved.
HookAfterConnect(r) == IF tKind[r] = "stateful" THEN "stateful" ELSE hook[r]

\* What is written when the async handler's promise rejects: the handler has
\* no try/catch, so the rejection leaves it and the handler writes nothing; a
\* framework that does not observe the returned promise writes nothing
\* either, one that forwards the rejection to its error middleware writes a
\* 500.  Which of the two the build links is fixed per run, not per request.
RejectionResponse == IF forwardsRejection THEN "framework500" ELSE "none"

\* ------------------------------------------------------------------- Init
\* spawnSync has not run; build.status is null (the build was killed by a
\* signal); the script's process has not exited.
NotRun == -2
NullStatus == -1
Running == -1

\* The script has not been started.
BumpIdle ==
    [pcB |-> "idle", argv2 |-> "", restDry |-> FALSE, parts |-> <<>>,
     inc |-> "", fileParts |-> <<>>, buildRuns |-> 0, buildSaw |-> <<>>,
     status |-> NotRun, exit |-> Running]

\* The idea-detail widget is not mounted.
DetailIdle ==
    [mounted |-> FALSE, archived |-> FALSE, hasOpenai |-> FALSE,
     showMenu |-> FALSE, calls |-> <<>>, backend |-> FALSE,
     lastPost |-> "none"]

\* A field that an object does not have.
Missing == "<missing>"

\* null or undefined in place of the widget state: `prev?.x` is undefined
\* for every field and `{ ...prev }` is the empty object.
NullWs ==
    [isNull |-> TRUE, sortBy |-> Missing, sortOrder |-> Missing,
     favorites |-> Missing, viewMode |-> Missing, selectedIdea |-> Missing]

\* The ideas-list widget is not mounted.
ListIdle ==
    [mounted |-> FALSE, ws |-> NullWs, window |-> NullWs,
     clicked |-> Missing, sortClicks |-> 0]

ServerInit ==
    /\ sessions = [s \in SidStrings |-> NoT]
    /\ pc = [r \in Reqs |-> "new"]
    /\ reqSid = [r \in Reqs |-> Absent]
    /\ reqT = [r \in Reqs |-> NoT]
    /\ tKind = [t \in Transports |-> "none"]
    /\ tBound = [t \in Transports |-> FALSE]
    /\ tEngine = [t \in Transports |-> NoEngine]
    /\ closeCalls = [t \in Transports |-> 0]
    /\ drivenOn = [r \in Reqs |-> NoT]
    /\ hook = [r \in Reqs |-> "none"]
    /\ closeEvents = [r \in Reqs |-> 0]
    /\ lostClose = [r \in Reqs |-> FALSE]
    /\ outcome = [r \in Reqs |-> "pending"]
    /\ response = [r \in Reqs |-> "none"]
    /\ forwardsRejection \in BOOLEAN

Init ==
    /\ bump = BumpIdle /\ detail = DetailIdle /\ ideasList = ListIdle
    /\ ServerInit

\* ---------------------------------------------------------------- actions
\* Requests arrive in the order of their numbers, and session names are
\* opaque: the first session name a behaviour uses is called "a", the
\* second "b".
ArrivesNext(r, sid) ==
    /\ \A q \in Reqs : q < r => pc[q] # "new"
    /\ sid = "b" => \E q \in Reqs : q < r /\ reqSid[q] = "a"

\* A handler that binds the engine again when it finds the session.
StartRebinds(r, sid) ==
    /\ pc[r] = "new"
    /\ ArrivesNext(r, sid)
    /\ reqSid' = [reqSid EXCEPT ![r] = sid]
    /\ sessions' = SessionsAfterStart(r, sid)
    /\ IF IsStateless(sid) \/ LookupSession(sid) = NoT
       THEN /\ tKind' = [tKind EXCEPT ![r] =
                            IF IsStateless(sid) THEN "stateless" ELSE "stateful"]
            /\ reqT' = [reqT EXCEPT ![r] = r]
            /\ hook' = [hook EXCEPT ![r] = HookAtStart(sid)]
       ELSE /\ reqT' = [reqT EXCEPT ![r] = LookupSession(sid)]
            /\ UNCHANGED <<tKind, hook>>
    /\ pc' = [pc EXCEPT ![r] = "await_connect"]
    /\ UNCHANGED <<drivenOn, tBound, tEngine, closeCalls, closeEvents,
                   lostClose, outcome, response, forwardsRejection, bump,
                   detail, ideasList>>

\* Request r arrives with sessionId parameter sid; the handler runs from its
\* entry to its first await.
Start(r, sid) ==
    /\ pc[r] = "new"
    /\ ArrivesNext(r, sid)
    /\ reqSid' = [reqSid EXCEPT ![r] = sid]
    /\ sessions' = SessionsAfterStart(r, sid)
    /\ IF IsStateless(sid) \/ LookupSession(sid) = NoT
       THEN \* new transport, then `await server.connect(transport)`
            /\ tKind' = [tKind EXCEPT ![r] =
                            IF IsStateless(sid) THEN "stateless" ELSE "stateful"]
            /\ reqT' = [reqT EXCEPT ![r] = r]
            /\ hook' = [hook EXCEPT ![r] = HookAtStart(sid)]
            /\ pc' = [pc EXCEPT ![r] = "await_connect"]
            /\ UNCHANGED drivenOn
       ELSE \* session found: `await session.transport.handleRequest(...)`
            /\ reqT' = [reqT EXCEPT ![r] = LookupSession(sid)]
            /\ drivenOn' = [drivenOn EXCEPT ![r] = LookupSession(sid)]
            /\ pc' = [pc EXCEPT ![r] = "await_handle"]
            /\ UNCHANGED <<tKind, hook>>
    /\ UNCHANGED <<tBound, tEngine, closeCalls, closeEvents, lostClose,
                   outcome, response, forwardsRejection, bump,
                   detail, ideasList>>

\* `await server.connect(transport)` resolves: the stateful path registers
\* its release hook, then both paths call transport.handleRequest.
ConnectResolves(r) ==
    /\ pc[r] = "await_connect"
    /\ tBound' = [tBound EXCEPT ![r] = TRUE]
    /\ tEngine' = [tEngine EXCEPT ![r] = EngineFor(r)]
    /\ hook' = [hook EXCEPT ![r] = HookAfterConnect(r)]
    /\ drivenOn' = [drivenOn EXCEPT ![r] = reqT[r]]
    /\ pc' = [pc EXCEPT ![r] = "await_handle"]
    /\ UNCHANGED <<sessions, reqSid, reqT, tKind, closeCalls, closeEvents,
                   lostClose, outcome, response, forwardsRejection, bump,
                   detail, ideasList>>

\* `await server.connect(transport)` rejects: the handler's promise rejects
\* at that await; nothing after it runs.
ConnectRejects(r) ==
    /\ pc[r] = "await_connect"
    /\ pc' = [pc EXCEPT ![r] = "rejected"]
    /\ outcome' = [outcome EXCEPT ![r] = "bind_rejected"]
    /\ response' = [response EXCEPT ![r] = RejectionResponse]
    /\ UNCHANGED <<sessions, reqSid, reqT, tKind, tBound, tEngine, closeCalls,
                   drivenOn, hook, closeEvents, lostClose, forwardsRejection, bump,
                   detail, ideasList>>

\* A handler that tears the session down when the drive fails.
HandleSettlesTearsDown(r, d) ==
    /\ pc[r] = "await_handle"
    /\ pc' = [pc EXCEPT ![r] = IF d = "throw" THEN "rejected" ELSE "done"]
    /\ outcome' = [outcome EXCEPT ![r] =
                      IF d = "throw" THEN "drive_rejected" ELSE d]
    /\ response' = [response EXCEPT ![r] =
                       IF d = "throw" THEN RejectionResponse
                       ELSE IF d = "ok" THEN "result" ELSE "error"]
    /\ closeCalls' = [closeCalls EXCEPT ![reqT[r]] =
                         IF d = "ok" \/ @ > 0 THEN @ ELSE @ + 1]
    /\ sessions' = IF d # "ok" /\ tKind[reqT[r]] = "stateful"
                   THEN SessionsAfterRelease(reqSid[r])
                   ELSE sessions
    /\ UNCHANGED <<reqSid, reqT, tKind, tBound, tEngine, drivenOn, hook,
                   closeEvents, lostClose, forwardsRejection, bump,
                   detail, ideasList>>

\* `await transport.handleRequest(req, res, req.body)` settles: the transport
\* wrote the result ("ok"), wrote an error response itself ("error"), or its
\* promise rejected ("throw").
HandleSettles(r, d) ==
    /\ pc[r] = "await_handle"
    /\ IF d = "throw"
       THEN /\ pc' = [pc EXCEPT ![r] = "rejected"]
            /\ outcome' = [outcome EXCEPT ![r] = "drive_rejected"]
            /\ response' = [response EXCEPT ![r] = RejectionResponse]
       ELSE /\ pc' = [pc EXCEPT ![r] = "done"]
            /\ outcome' = [outcome EXCEPT ![r] = d]
            /\ response' = [response EXCEPT ![r] =
                               IF d = "ok" THEN "result" ELSE "error"]
    /\ UNCHANGED <<sessions, reqSid, reqT, tKind, tBound, tEngine, closeCalls,
                   drivenOn, hook, closeEvents, lostClose, forwardsRejection, bump,
                   detail, ideasList>>

\* A stateful hook that removes the entry without closing the transport.
DeliverRemovesOnly(r) ==
    /\ closeEvents' = [closeEvents EXCEPT ![r] = @ + 1]
    /\ lostClose' = [lostClose EXCEPT ![r] = @ \/ hook[r] = "none"]
    /\ closeCalls' = [closeCalls EXCEPT ![r] =
                         IF hook[r] = "stateless" THEN @ + 1 ELSE @]
    /\ sessions' = IF hook[r] = "stateful"
                   THEN SessionsAfterRelease(reqSid[r])
                   ELSE sessions
    /\ UNCHANGED <<pc, reqSid, reqT, tKind, tBound, tEngine, drivenOn, hook,
                   outcome, response, forwardsRejection, bump,
                   detail, ideasList>>

\* The effect of one delivery of 'close' on response r: the listeners
\* registered at that moment run; with none registered nothing happens.
Deliver(r) ==
    /\ closeEvents' = [closeEvents EXCEPT ![r] = @ + 1]
    /\ lostClose' = [lostClose EXCEPT ![r] = @ \/ hook[r] = "none"]
    /\ closeCalls' = [closeCalls EXCEPT ![r] =
                         IF hook[r] = "none" THEN @ ELSE @ + 1]
    /\ sessions' = IF hook[r] = "stateful"
                   THEN SessionsAfterRelease(reqSid[r])
                   ELSE sessions
    /\ UNCHANGED <<pc, reqSid, reqT, tKind, tBound, tEngine, drivenOn, hook,
                   outcome, response, forwardsRejection, bump,
                   detail, ideasList>>

\* The 'close' event of response r: the connection ended, at any moment from
\* the request's arrival on.
CloseEvent(r) ==
    /\ pc[r] # "new"
    /\ closeEvents[r] = 0
    /\ Deliver(r)

\* A further delivery of 'close' on the same response (`res.on`, not
\* `res.once`, keeps the listener registered).
CloseEventAgain(r) ==
    /\ closeEvents[r] >= 1
    /\ closeEvents[r] < MaxCloseDeliveries
    /\ Deliver(r)

Next ==
    \/ \E r \in Reqs, sid \in SidInputs : Start(r, sid)
    \/ \E r \in Reqs : ConnectResolves(r)
    \/ \E r \in Reqs : ConnectRejects(r)
    \/ \E r \in Reqs, d \in DriveResults : HandleSettles(r, d)
    \/ \E r \in Reqs : CloseEvent(r)

Spec == Init /\ [][Next]_vars

NextDup ==
    \/ Next
    \/ \E r \in Reqs : CloseEventAgain(r)

SpecDup == Init /\ [][NextDup]_vars

\* Requests may also carry `?sessionId=` with an empty value; one session
\* name is enough to tell the two paths apart.
SidInputsAny == {Absent, EmptySid, "a"}

NextAnySid ==
    \/ \E r \in Reqs, sid \in SidInputsAny : Start(r, sid)
    \/ \E r \in Reqs : ConnectResolves(r)
    \/ \E r \in Reqs : ConnectRejects(r)
    \/ \E r \in Reqs, d \in DriveResults : HandleSettles(r, d)
    \/ \E r \in Reqs : CloseEvent(r)

SpecAnySid == Init /\ [][NextAnySid]_vars

\* ------------------------------------------------- the version bump script
\* `type Inc`, and what process.argv[2] and the prompt's answer can be.
IncTypes == {"major", "minor", "patch"}
Argv2Inputs == IncTypes \cup {"", "--dry", "bogus"}
AnswerInputs == IncTypes \cup {"", " Minor ", "x"}

\* parseInt of one dot-separated part of pkg.version: a number, or NaN.
NaN == -1
PartInputs == 0..MaxVer \cup {NaN}
\* pkg.version split at the dots: three parts, or two.
VersionInputs ==
    [1..3 -> PartInputs] \cup [1..2 -> PartInputs]

\* `ans.trim().toLowerCase()`.
Normalise(ans) == IF ans = " Minor " THEN "minor" ELSE ans

\* A dry-run test that looks at the first argument only.
IsDryOnlyFirstArg(b) == b.argv2 = "--dry"

\* `process.argv.includes('--dry')`.
IsDry(b) == b.argv2 = "--dry" \/ b.restDry

\* incVersion rejects: `parts.length !== 3 || parts.some(isNaN)`.
InvalidSemver(parts) ==
    Len(parts) # 3 \/ \E i \in 1..Len(parts) : parts[i] = NaN

\* incVersion on a valid version.
IncVersion(parts, type) ==
    IF type = "major" THEN <<parts[1] + 1, 0, 0>>
    ELSE IF type = "minor" THEN <<parts[1], parts[2] + 1, 0>>
    ELSE <<parts[1], parts[2], parts[3] + 1>>

\* An exit code that ignores the build's status.
ExitCodeAlwaysOne(status) == 1

\* `process.exit(build.status || 1)`.
ExitCodeFor(status) == IF status = NullStatus \/ status = 0 THEN 1 ELSE status

BuildStatuses == 0..MaxStatus \cup {NullStatus}

\* The script starts in a directory whose package.json was read.
InitBump ==
    /\ ServerInit
    /\ ~forwardsRejection
    /\ detail = DetailIdle /\ ideasList = ListIdle
    /\ \E a \in Argv2Inputs, d \in BOOLEAN, v \in VersionInputs :
           bump = [BumpIdle EXCEPT !.pcB = "parse", !.argv2 = a,
                                   !.restDry = d, !.parts = v,
                                   !.fileParts = v]

serverVars == <<sessions, pc, reqSid, reqT, tKind, tBound, tEngine,
                closeCalls, drivenOn, hook, closeEvents, lostClose, outcome,
                response, forwardsRejection>>

\* main, up to the prompt: the increment is argv[2] when that is one.
BumpParse ==
    /\ bump.pcB = "parse"
    /\ bump' = IF bump.argv2 \in IncTypes
               THEN [bump EXCEPT !.pcB = "compute", !.inc = bump.argv2]
               ELSE [bump EXCEPT !.pcB = "ask"]
    /\ UNCHANGED <<serverVars, detail, ideasList>>

\* The prompt is answered: anything but an increment name means patch.
BumpAsk(ans) ==
    /\ bump.pcB = "ask"
    /\ bump' = [bump EXCEPT !.pcB = "compute",
                            !.inc = IF Normalise(ans) \in IncTypes
                                    THEN Normalise(ans) ELSE "patch"]
    /\ UNCHANGED <<serverVars, detail, ideasList>>

\* incVersion: it throws on an invalid version, and main().catch exits 1.
BumpCompute ==
    /\ bump.pcB = "compute"
    /\ bump' = IF InvalidSemver(bump.parts)
               THEN [bump EXCEPT !.pcB = "exited", !.exit = 1]
               ELSE IF IsDry(bump)
               THEN [bump EXCEPT !.pcB = "report"]
               ELSE [bump EXCEPT !.pcB = "write"]
    /\ UNCHANGED <<serverVars, detail, ideasList>>

\* `if (!dry)`: pkg.version = newVersion; fs.writeFileSync(pkgPath, ...).
BumpWrite ==
    /\ bump.pcB = "write"
    /\ bump' = [bump EXCEPT !.pcB = "build",
                            !.fileParts = IncVersion(bump.parts, bump.inc)]
    /\ UNCHANGED <<serverVars, detail, ideasList>>

\* `if (!dry)`: spawnSync('npm', ['run', 'build']) ends with status st; the
\* build reads the package.json on disk.
BumpBuild(st) ==
    /\ bump.pcB = "build"
    /\ bump' = IF st # 0
               THEN [bump EXCEPT !.pcB = "exited", !.buildRuns = @ + 1,
                                 !.buildSaw = bump.fileParts, !.status = st,
                                 !.exit = ExitCodeFor(st)]
               ELSE [bump EXCEPT !.pcB = "report", !.buildRuns = @ + 1,
                                 !.buildSaw = bump.fileParts, !.status = st]
    /\ UNCHANGED <<serverVars, detail, ideasList>>

\* The manifest report: a manifest that does not parse makes main reject
\* (exit 1); otherwise main returns and the process exits 0.
BumpReport(parses) ==
    /\ bump.pcB = "report"
    /\ bump' = [bump EXCEPT !.pcB = "exited",
                            !.exit = IF parses THEN 0 ELSE 1]
    /\ UNCHANGED <<serverVars, detail, ideasList>>

NextBump ==
    \/ BumpParse
    \/ \E ans \in AnswerInputs : BumpAsk(ans)
    \/ BumpCompute
    \/ BumpWrite
    \/ \E st \in BuildStatuses : BumpBuild(st)
    \/ \E parses \in BOOLEAN : BumpReport(parses)

SpecBump == InitBump /\ [][NextBump]_vars

\* ------------------------------------------------- the idea-detail widget
\* Tool calls waiting at the MCP server, at most.
MaxCalls == 2

\* The two tools registered for the archive status.
ArchiveTools == {"archive_idea", "restore_idea"}

\* The text of the archive entry of the menu.
MenuLabel(d) == IF d.archived THEN "Unarchive" ELSE "Archive"

\* The call handleArchiveIdea makes:
\* callTool("archive_idea", { idea_id, archived: !idea.archived }).
MenuToolCall(d) ==
    [tool |-> "archive_idea", archivedArg |-> ~d.archived,
     label |-> MenuLabel(d)]

\* A tool call made from the conversation, not from the widget.
ChatLabel == "<chat>"
ChatToolCall(tool) ==
    [tool |-> tool, archivedArg |-> FALSE, label |-> ChatLabel]

\* The backend endpoint the handler registered under a tool name posts to;
\* the handlers read idea_id only, no other argument of the call.
EndpointOf(tool) == IF tool = "archive_idea" THEN "archive" ELSE "restore"

\* The backend's archive flag after a successful POST to an endpoint.
BackendAfter(endpoint) == endpoint = "archive"

\* The widget is rendered with an idea, archived or not, with or without
\* window.openai.
InitDetail ==
    /\ ServerInit
    /\ ~forwardsRejection
    /\ bump = BumpIdle /\ ideasList = ListIdle
    /\ \E a \in BOOLEAN, o \in BOOLEAN :
           detail = [DetailIdle EXCEPT !.mounted = TRUE, !.archived = a,
                                       !.backend = a, !.hasOpenai = o]

\* The menu button: setShowMenu(!showMenu).
DetailToggleMenu ==
    /\ detail.mounted
    /\ detail' = [detail EXCEPT !.showMenu = ~@]
    /\ UNCHANGED <<serverVars, bump, ideasList>>

\* handleArchiveIdea, the onClick of the archive entry of the open menu.
HandleArchiveIdea ==
    /\ detail.mounted /\ detail.showMenu
    /\ Len(detail.calls) < MaxCalls
    /\ detail' = [detail EXCEPT
                      !.showMenu = FALSE,
                      !.calls = IF detail.hasOpenai
                                THEN Append(@, MenuToolCall(detail))
                                ELSE @]
    /\ UNCHANGED <<serverVars, bump, ideasList>>

\* The conversation calls one of the two registered tools itself.
ChatCallsTool(tool) ==
    /\ detail.mounted
    /\ Len(detail.calls) < MaxCalls
    /\ detail' = [detail EXCEPT !.calls = Append(@, ChatToolCall(tool))]
    /\ UNCHANGED <<serverVars, bump, ideasList>>

\* The handler of the tool named by the oldest waiting call runs:
\* makeApiRequest posts to its endpoint, and throws when the response is
\* not ok.
ToolRuns(tool, ok) ==
    /\ detail.calls # <<>>
    /\ Head(detail.calls).tool = tool
    /\ detail' = [detail EXCEPT
                      !.calls = Tail(@),
                      !.lastPost = EndpointOf(tool),
                      !.backend = IF ok THEN BackendAfter(EndpointOf(tool))
                                  ELSE @]
    /\ UNCHANGED <<serverVars, bump, ideasList>>

\* The host renders the widget again with the idea as the backend has it.
DetailRefresh ==
    /\ detail.mounted
    /\ detail.archived # detail.backend
    /\ detail' = [detail EXCEPT !.archived = detail.backend]
    /\ UNCHANGED <<serverVars, bump, ideasList>>

NextDetail ==
    \/ DetailToggleMenu
    \/ HandleArchiveIdea
    \/ \E tool \in ArchiveTools : ChatCallsTool(tool)
    \/ \E tool \in ArchiveTools, ok \in BOOLEAN : ToolRuns(tool, ok)
    \/ DetailRefresh

SpecDetail == InitDetail /\ [][NextDetail]_vars

\* --------------------------------------------------- the ideas-list widget
\* Clicks on sort buttons per behaviour.
MaxClicks == 2

\* The default state handed to useWidgetState.
DefaultWs ==
    [isNull |-> FALSE, sortBy |-> "updated_date", sortOrder |-> "desc",
     favorites |-> "[]", viewMode |-> "list", selectedIdea |-> Missing]

\* The sort buttons of the filter bar, and the keys of IdeaWidgetState.
SortButtons == {"urgency", "updated_date"}
SortKeys == {"created_date", "updated_date", "urgency", "title"}

\* The widget states the host can hold: none, or an object with any of the
\* fields.
WindowStates ==
    {NullWs} \cup
    [isNull : {FALSE}, sortBy : {Missing} \cup SortKeys,
     sortOrder : {Missing, "asc", "desc"}, favorites : {Missing, "[]"},
     viewMode : {Missing, "list"}, selectedIdea : {Missing}]

\* `{ ...prev }`.
Spread(prev) == [prev EXCEPT !.isNull = FALSE]

\* An order that is always desc.
NewSortOrderAlwaysDesc(ws, sortBy) == "desc"

\* newSortOrder of handleSort.
NewSortOrder(ws, sortBy) ==
    IF ws.sortBy = sortBy /\ ws.sortOrder = "desc" THEN "asc" ELSE "desc"

\* The first render: useState takes the host's widget state, or the default
\* when the host has none.
InitList ==
    /\ ServerInit
    /\ ~forwardsRejection
    /\ bump = BumpIdle /\ detail = DetailIdle
    /\ \E w \in WindowStates :
           ideasList = [ListIdle EXCEPT
                            !.window = w,
                            !.ws = IF w.isNull THEN DefaultWs ELSE w]

\* The effect of useWidgetState after the first render:
\* _setWidgetState(widgetStateFromWindow).
ListMountEffect ==
    /\ ~ideasList.mounted
    /\ ideasList' = [ideasList EXCEPT !.mounted = TRUE,
                                      !.ws = ideasList.window]
    /\ UNCHANGED <<serverVars, bump, detail>>

\* The host replaces the widget state; the same effect runs.
HostPushesState(w) ==
    /\ ideasList.mounted
    /\ w # ideasList.window
    /\ ideasList' = [ideasList EXCEPT !.window = w, !.ws = w]
    /\ UNCHANGED <<serverVars, bump, detail>>

\* handleSort(sortBy), the onClick of a sort button; the widget has
\* rendered since the previous event.
HandleSort(sortBy) ==
    /\ ideasList.mounted
    /\ ideasList.sortClicks < MaxClicks
    /\ ideasList' =
           [ideasList EXCEPT
                !.clicked = sortBy,
                !.sortClicks = @ + 1,
                !.ws = [Spread(@) EXCEPT
                            !.sortBy = sortBy,
                            !.sortOrder = NewSortOrder(ideasList.ws, sortBy)]]
    /\ UNCHANGED <<serverVars, bump, detail>>

\* handleToggleFavorite on the one idea shown.
ListToggleFavorite ==
    /\ ideasList.mounted
    /\ ideasList' =
           [ideasList EXCEPT
                !.ws = [Spread(@) EXCEPT
                            !.favorites = IF @ = "[i1]" THEN "[]" ELSE "[i1]"]]
    /\ UNCHANGED <<serverVars, bump, detail>>

\* handleIdeaClick on the one idea shown.
HandleIdeaClick ==
    /\ ideasList.mounted
    /\ ideasList.ws.viewMode # "detail"
    /\ ideasList' =
           [ideasList EXCEPT
                !.ws = [Spread(@) EXCEPT !.selectedIdea = "i1",
                                         !.viewMode = "detail"]]
    /\ UNCHANGED <<serverVars, bump, detail>>

NextList ==
    \/ ListMountEffect
    \/ \E w \in WindowStates : HostPushesState(w)
    \/ \E sortBy \in SortButtons : HandleSort(sortBy)
    \/ ListToggleFavorite
    \/ HandleIdeaClick

SpecList == InitList /\ [][NextList]_vars

\* ------------------------------------------------------------ definitions
\* used by the properties
SessionNames == {"a", "b"}
Terminal == {"done", "rejected"}

\* The stateful transports constructed for session name s, and those of them
\* on which close() has not been called.
CreatedFor(s) == {t \in Transports : tKind[t] = "stateful" /\ reqSid[t] = s}
LiveFor(s) == {t \in CreatedFor(s) : closeCalls[t] = 0}

\* C1: between teardowns a session name has exactly one transport: the
\* unclosed transports constructed for it are exactly the registry's entry
\* (one if there is an entry, none after the teardown), and every request
\* with that name whose transport is unclosed was resolved to that entry.
C1_OneTransportPerSession ==
    \A s \in SessionNames :
        /\ Cardinality(LiveFor(s)) <= 1
        /\ sessions[s] # NoT => LiveFor(s) = {sessions[s]}
        /\ sessions[s] = NoT => LiveFor(s) = {}
        /\ \A r \in Reqs :
               (reqSid[r] = s /\ reqT[r] # NoT /\ closeCalls[reqT[r]] = 0)
                   => reqT[r] = sessions[s]

\* Request 1 created session "a" and was served, request 2 was served by the
\* same transport, then the close event of request 1 emptied the registry.
C1_Witness ==
    /\ reqSid[1] = "a" /\ reqSid[2] = "a"
    /\ outcome[1] = "ok" /\ outcome[2] = "ok"
    /\ drivenOn[1] = 1 /\ drivenOn[2] = 1
    /\ closeCalls[1] = 1
    /\ sessions["a"] = NoT

\* C2: as long as no transport of session name s has been closed, at most
\* one transport was ever constructed for s, every request that arrived with
\* s was resolved to it, and handleRequest was started for a request only on
\* that transport.
C2_ConcurrentFirstContact ==
    \A s \in SessionNames :
        (\A t \in CreatedFor(s) : closeCalls[t] = 0) =>
            /\ Cardinality(CreatedFor(s)) <= 1
            /\ \A r \in Reqs :
                   (pc[r] # "new" /\ reqSid[r] = s) =>
                       /\ reqT[r] \in CreatedFor(s)
                       /\ drivenOn[r] \in {NoT, reqT[r]}

\* Three requests for the new name "a" overlap: the first is still awaiting
\* server.connect while the other two are driven on its transport.
C2_Witness ==
    /\ \A r \in Reqs : reqSid[r] = "a"
    /\ pc[1] = "await_connect"
    /\ pc[2] = "await_handle" /\ pc[3] = "await_handle"
    /\ drivenOn[2] = 1 /\ drivenOn[3] = 1
    /\ CreatedFor("a") = {1}

\* C3: once a close event has reached the release hook of the request that
\* created a stateful session, the session's entry is gone and close() has
\* been invoked on its transport exactly once, however often the event is
\* delivered.
C3_ClosedExactlyOnce ==
    \A r \in Reqs :
        (tKind[r] = "stateful" /\ closeEvents[r] >= 1 /\ ~lostClose[r]) =>
            /\ sessions[reqSid[r]] # r
            /\ closeCalls[r] = 1

StatelessStep(r) ==
    /\ reqSid'[r] = Absent
    /\ pc'[r] # pc[r] \/ closeEvents'[r] # closeEvents[r]

\* C5: no step of a request without sessionId (first segment, connect
\* resolving or rejecting, drive settling, release hook) changes the
\* registry.
C5_StatelessLeavesRegistry ==
    [][\A r \in Reqs : StatelessStep(r) => sessions' = sessions]_vars

\* A request without sessionId has finished and its release hook has run
\* while the registry holds a session.
C5_Witness ==
    \E r \in Reqs :
        /\ reqSid[r] = Absent
        /\ pc[r] \in Terminal
        /\ closeEvents[r] = 1 /\ closeCalls[r] = 1
        /\ sessions["a"] # NoT

\* The drive of request r on a session's transport fails: the transport
\* answers with an error, or handleRequest rejects.
DriveFails(r) ==
    /\ pc[r] = "await_handle"
    /\ tKind[reqT[r]] = "stateful"
    /\ outcome'[r] \in {"error", "drive_rejected"}

\* Request r has had a failed drive on transport t.
FailedOn(r, t) ==
    /\ reqT[r] = t
    /\ outcome[r] \in {"error", "drive_rejected"}

C7_BindFailureRollsBack ==
    \A r \in Reqs :
        (tKind[r] = "stateful" /\ outcome[r] = "bind_rejected") =>
            /\ sessions[reqSid[r]] # r
            /\ closeCalls[r] >= 1

\* C8: every handler that has ended has sent a response, and no handler
\* ended by a rejection leaving it.
C8_EveryRequestAnswered ==
    \A r \in Reqs :
        pc[r] \in Terminal => (response[r] # "none" /\ pc[r] # "rejected")

\* C9: for every transport whose bind has resolved, once the close event of
\* the request that created it has been delivered and the handler is past
\* the await of the bind, the release hook has run exactly once (one close()
\* call), whatever the handler's position was at the delivery.
C9_CloseNeverLost ==
    \A r \in Reqs :
        (tKind[r] # "none" /\ tBound[r] /\ closeEvents[r] >= 1)
            => closeCalls[r] = 1

\* C10: once close() has been invoked on a transport, no step starts
\* handleRequest on it and no step binds the engine to it.
C10_ClosedNeverReused ==
    [][\A t \in Transports :
           closeCalls[t] >= 1 =>
               /\ \A r \in Reqs : drivenOn'[r] = t => drivenOn[r] = t
               /\ tBound'[t] => tBound[t]]_vars


\* C11: no two requests whose connections are both still open are in flight
\* on the same transport at the same time.
C11_OneRequestInFlightPerTransport ==
    \A r1, r2 \in Reqs :
        (/\ r1 # r2
         /\ pc[r1] = "await_handle" /\ pc[r2] = "await_handle"
         /\ closeEvents[r1] = 0 /\ closeEvents[r2] = 0)
            => drivenOn[r1] # drivenOn[r2]

\* Request r arrives in this step.
Arrives(r) == pc[r] = "new" /\ pc'[r] # "new"

\* C12: the registry never holds a transport on which close() has been
\* called, and a request arriving with a session name all of whose
\* transports are closed constructs a new transport and registers it under
\* that name.
C12_ClosedSessionIsAbsent ==
    [][/\ \A s \in SessionNames :
              sessions'[s] # NoT => closeCalls'[sessions'[s]] = 0
       /\ \A r \in Reqs : \A s \in SessionNames :
              (/\ Arrives(r) /\ reqSid'[r] = s
               /\ CreatedFor(s) # {} /\ LiveFor(s) = {})
                  => /\ sessions[s] = NoT
                     /\ reqT'[r] = r /\ tKind'[r] = "stateful"
                     /\ sessions'[s] = r]_vars

\* Session "a" was created by request 1 and closed; request 2 arrived with
\* "a" afterwards and has its own registered transport.
C12_Witness ==
    /\ reqSid[1] = "a" /\ tKind[1] = "stateful" /\ closeCalls[1] = 1
    /\ reqSid[2] = "a" /\ tKind[2] = "stateful" /\ closeCalls[2] = 0
    /\ sessions["a"] = 2
    /\ drivenOn[2] = 2

\* Request r has taken the stateless path: its own disposable transport.
TookStatelessPath(r) == reqT[r] = r /\ tKind[r] = "stateless"

\* Request r has taken the stateful path: a transport constructed for its
\* session name.
TookStatefulPath(r) ==
    /\ reqT[r] # NoT
    /\ tKind[reqT[r]] = "stateful"
    /\ reqSid[reqT[r]] = reqSid[r]

\* C13 as stated: a request takes the stateless path exactly when it carries
\* no sessionId parameter; with any string value, the empty one included, it
\* takes the stateful path.
C13_StatelessIffAbsent ==
    \A r \in Reqs :
        pc[r] # "new" =>
            /\ reqSid[r] = Absent => TookStatelessPath(r)
            /\ reqSid[r] # Absent => TookStatefulPath(r)

\* C13 as amended: a request takes the stateless path exactly when its
\* sessionId parameter is missing or empty; with any non-empty value it takes
\* the stateful path, and the registry never has an entry under the empty
\* string.
C13_StatelessIffFalsy ==
    /\ \A r \in Reqs :
           pc[r] # "new" =>
               /\ reqSid[r] \in {Absent, EmptySid} => TookStatelessPath(r)
               /\ reqSid[r] \notin {Absent, EmptySid} => TookStatefulPath(r)
    /\ sessions[EmptySid] = NoT

\* One request without the parameter, one with an empty value and one with
\* "a" have all arrived; only "a" is registered.
C13_Witness ==
    /\ \E r \in Reqs : reqSid[r] = EmptySid /\ TookStatelessPath(r)
    /\ \E r \in Reqs : pc[r] # "new" /\ reqSid[r] = Absent
    /\ \E r \in Reqs : reqSid[r] = "a" /\ sessions["a"] = r


\* C15: a request that finds an entry for its session name constructs no
\* transport, starts no bind and is driven on the stored transport; a bind
\* is started only by an arriving request on the transport it has just
\* constructed, and a bound transport stays bound to the same engine.
C15_BindOncePerTransport ==
    [][/\ \A r \in Reqs :
              (/\ Arrives(r) /\ reqSid'[r] \in SessionNames
               /\ sessions[reqSid'[r]] # NoT)
                  => /\ tKind' = tKind /\ sessions' = sessions
                     /\ tBound' = tBound /\ tEngine' = tEngine
                     /\ pc'[r] = "await_handle"
                     /\ reqT'[r] = sessions[reqSid'[r]]
                     /\ drivenOn'[r] = sessions[reqSid'[r]]
       /\ \A r \in Reqs :
              (pc'[r] = "await_connect" /\ pc[r] # "await_connect")
                  => pc[r] = "new" /\ tKind[r] = "none" /\ reqT'[r] = r
       /\ \A t \in Transports :
              tBound[t] => (tBound'[t] /\ tEngine'[t] = tEngine[t])]_vars

\* Request 2 found the session of request 1 and was served on its bound
\* transport without constructing one.
C15_Witness ==
    /\ tKind[1] = "stateful" /\ tBound[1]
    /\ reqT[2] = 1 /\ drivenOn[2] = 1 /\ tKind[2] = "none"
    /\ outcome[2] = "ok"

\* C16: whenever a request is suspended awaiting the bind of a session it
\* created, the registry holds that session's entry, and a request arriving
\* with the same name in that window is resolved to it and creates nothing.
C16_InsertBeforeBind ==
    [][/\ \A r \in Reqs :
              (pc'[r] = "await_connect" /\ tKind'[r] = "stateful")
                  => sessions'[reqSid'[r]] = r
       /\ \A r, r2 \in Reqs :
              (/\ pc[r] = "await_connect" /\ tKind[r] = "stateful"
               /\ Arrives(r2) /\ reqSid'[r2] = reqSid[r])
                  => /\ reqT'[r2] = r
                     /\ tKind' = tKind /\ sessions' = sessions]_vars

\* Request 1 is still awaiting the bind of session "a"; request 2 arrived
\* with "a", was resolved to the transport of request 1 and built none.
C16_Witness ==
    /\ pc[1] = "await_connect" /\ reqSid[1] = "a" /\ sessions["a"] = 1
    /\ reqSid[2] = "a" /\ reqT[2] = 1 /\ tKind[2] = "none"

\* C17: whenever handleRequest is started for a request, the transport it is
\* started on is bound.
C17_DrivenOnlyWhenBound ==
    [][\A r \in Reqs :
           (drivenOn[r] = NoT /\ drivenOn'[r] # NoT)
               => tBound'[drivenOn'[r]]]_vars

\* C18: the stateful release hook closes the transport and removes the entry
\* in one handler-free step: a close() on a session's transport leaves no
\* entry for it, an entry is removed only together with a close() call on
\* its transport, and no handler changes position in that step.
C18_CloseThenRemove ==
    [][\A t \in Transports :
           tKind[t] = "stateful" =>
               /\ closeCalls'[t] > closeCalls[t]
                      => (sessions'[reqSid[t]] # t /\ pc' = pc)
               /\ (sessions[reqSid[t]] = t /\ sessions'[reqSid[t]] # t)
                      => (closeCalls'[t] = closeCalls[t] + 1 /\ pc' = pc)]_vars

\* The hook of session "a" has run (transport closed, entry removed) while
\* request 2 was still in flight on that transport.
C18_Witness ==
    /\ tKind[1] = "stateful" /\ reqSid[1] = "a"
    /\ closeCalls[1] = 1 /\ sessions["a"] = NoT
    /\ pc[2] = "await_handle" /\ drivenOn[2] = 1

\* C19: every stateless transport has its release hook registered from the
\* first segment on, and close() has been called on it exactly when the
\* close event of its response has been delivered, whether the bind and the
\* drive succeed or fail.
C19_StatelessAlwaysReleased ==
    \A r \in Reqs :
        tKind[r] = "stateless" =>
            /\ hook[r] = "stateless"
            /\ closeEvents[r] >= 1 => closeCalls[r] = 1
            /\ closeEvents[r] = 0 => closeCalls[r] = 0

\* A stateless request whose bind was rejected, and one whose drive was
\* rejected, have both been released by their close events.
C19_Witness ==
    /\ \E r \in Reqs :
           /\ tKind[r] = "stateless" /\ outcome[r] = "bind_rejected"
           /\ closeEvents[r] = 1 /\ closeCalls[r] = 1
    /\ \E r \in Reqs :
           /\ tKind[r] = "stateless" /\ outcome[r] = "drive_rejected"
           /\ closeEvents[r] = 1 /\ closeCalls[r] = 1

\* C20: the registry changes only by the creation step of an arriving
\* request that found no entry for its name (which adds that request's
\* transport under that name) and by the release hook of the request whose
\* transport is the entry (which removes it).
C20_RegistryChangesOnlyByCreateAndRelease ==
    [][\A s \in SidStrings :
           sessions'[s] # sessions[s] =>
               \/ /\ sessions[s] = NoT
                  /\ \E r \in Reqs :
                         /\ Arrives(r) /\ reqSid'[r] = s
                         /\ pc'[r] = "await_connect"
                         /\ sessions'[s] = r
                  /\ \A s2 \in SidStrings \ {s} : sessions'[s2] = sessions[s2]
               \/ /\ sessions'[s] = NoT
                  /\ \E r \in Reqs :
                         /\ closeEvents'[r] = closeEvents[r] + 1
                         /\ hook[r] = "stateful"
                         /\ reqSid[r] = s /\ sessions[s] = r
                  /\ \A s2 \in SidStrings \ {s} : sessions'[s2] = sessions[s2]]_vars

\* Session "a" was created and released while session "b" stays registered,
\* after a failed drive and a stateless request.
C20_Witness ==
    /\ reqSid[1] = "a" /\ closeCalls[1] = 1 /\ sessions["a"] = NoT
    /\ reqSid[2] = "b" /\ sessions["b"] = 2
    /\ outcome[2] = "drive_rejected"
    /\ reqSid[3] = Absent /\ pc[3] = "done"


\* The script was run with --dry among its arguments.
RunWithDry == bump.argv2 = "--dry" \/ bump.restDry

\* The version after the chosen increment of a valid version.
SemverSuccessor ==
    LET v == bump.parts
    IN  CASE bump.inc = "major" -> <<v[1] + 1, 0, 0>>
          [] bump.inc = "minor" -> <<v[1], v[2] + 1, 0>>
          [] OTHER -> <<v[1], v[2], v[3] + 1>>

\* C14: run with --dry, the script leaves package.json as it was and never
\* runs the build; run without --dry, the build it runs finds the
\* incremented version in package.json, package.json holds that version
\* from the write on, and after a failed build the script has exited with
\* the build's status (with a failure code when the build has no status).
C14_DryRunAndBuildFailure ==
    /\ RunWithDry =>
           (bump.fileParts = bump.parts /\ bump.buildRuns = 0)
    /\ (~RunWithDry /\ bump.pcB \in {"build", "report"}) =>
           bump.fileParts = SemverSuccessor
    /\ bump.buildRuns > 0 =>
           (~RunWithDry /\ bump.buildSaw = SemverSuccessor)
    /\ bump.status > 0 =>
           (bump.pcB = "exited" /\ bump.exit = bump.status)
    /\ bump.status = NullStatus =>
           (bump.pcB = "exited" /\ bump.exit > 0)

\* `bump minor` without --dry on version 1.1.1: the build ran on 1.2.0 and
\* failed with status 2, which is the script's exit code.
C14_Witness ==
    /\ bump.argv2 = "minor" /\ ~bump.restDry
    /\ bump.parts = <<1, 1, 1>>
    /\ bump.fileParts = <<1, 2, 0>>
    /\ bump.buildSaw = <<1, 2, 0>>
    /\ bump.status = 2 /\ bump.exit = 2


\* A stateful transport is linked to the registry: it is the entry under the
\* session name it was constructed for.
Registered(t) == sessions[reqSid[t]] = t

\* C21: every stateful transport on which close() has not been called is
\* the registry's entry under its session name, so no two unclosed stateful
\* transports share a session name, also after a failed bind and after a
\* session was closed and created again.
C21_NoOrphanTransport ==
    /\ \A t \in Transports :
           (tKind[t] = "stateful" /\ closeCalls[t] = 0) => Registered(t)
    /\ \A t1, t2 \in Transports :
           (/\ tKind[t1] = "stateful" /\ tKind[t2] = "stateful"
            /\ closeCalls[t1] = 0 /\ closeCalls[t2] = 0
            /\ reqSid[t1] = reqSid[t2])
               => t1 = t2

\* The bind of session "a" failed and its transport is still the entry;
\* session "b" was created, closed, and created again by request 3.
C21_Witness ==
    /\ reqSid[1] = "a" /\ outcome[1] = "bind_rejected" /\ sessions["a"] = 1
    /\ reqSid[2] = "b" /\ tKind[2] = "stateful" /\ closeCalls[2] = 1
    /\ reqSid[3] = "b" /\ tKind[3] = "stateful" /\ closeCalls[3] = 0
    /\ sessions["b"] = 3


\* The 'close' event of the response of request r is delivered in this step.
CloseDelivered(r) == closeEvents'[r] = closeEvents[r] + 1

\* C22: the close of the response of a request that reused an existing
\* session neither closes a transport nor changes the registry, and the
\* close of the response of the request that created a session closes the
\* session's transport and removes its entry.
C22_HookOnCreatorOnly ==
    [][\A r \in Reqs :
           (CloseDelivered(r) /\ reqT[r] # NoT /\ tKind[reqT[r]] = "stateful")
               => IF reqT[r] = r
                  THEN /\ closeCalls'[r] = closeCalls[r] + 1
                       /\ sessions'[reqSid[r]] = NoT
                  ELSE /\ closeCalls' = closeCalls
                       /\ sessions' = sessions]_vars

\* C23: when the release hook of a stateful session runs, no request other
\* than the one whose connection closed is in flight on the session's
\* transport.
C23_NoDriveAtRelease ==
    [][\A r \in Reqs :
           (CloseDelivered(r) /\ hook[r] = "stateful")
               => \A r2 \in Reqs \ {r} :
                      ~(pc[r2] = "await_handle" /\ drivenOn[r2] = r)]_vars


\* What a waiting tool call asks the backend to do.
Requests(c) == EndpointOf(c.tool)

\* C24: the archive entry of the idea-detail menu toggles the archive
\* status: the call it makes on an active idea (label Archive) asks for the
\* idea to be archived, and the call it makes on an archived idea (label
\* Unarchive) asks for the idea to be restored.
C24_MenuTogglesArchive ==
    \A i \in 1..Len(detail.calls) :
        LET c == detail.calls[i]
        IN  /\ c.label = "Archive" => Requests(c) = "archive"
            /\ c.label = "Unarchive" => Requests(c) = "restore"


\* This step is a click on a sort button.
SortClicked == ideasList'.sortClicks = ideasList.sortClicks + 1

\* The selected key was active with order desc before the click.
ActiveDesc(w, k) == ~w.isNull /\ w.sortBy = k /\ w.sortOrder = "desc"

\* C25: a click on the sort key that is active with order desc sets the
\* order to asc; every other click (another key, the active key with order
\* asc, no sort state) makes the clicked key active with order desc.  So a
\* click on the active key flips its order, a click on another key starts
\* at desc, and no other field of the widget state changes.
C25_HandleSortToggles ==
    [][SortClicked =>
           LET old == ideasList.ws
               new == ideasList'.ws
               k == ideasList'.clicked
           IN  /\ k \in SortButtons
               /\ ~new.isNull /\ new.sortBy = k
               /\ new.sortOrder = (IF ActiveDesc(old, k) THEN "asc" ELSE "desc")
               /\ (old.sortBy = k /\ old.sortOrder \in {"asc", "desc"})
                      => new.sortOrder # old.sortOrder
               /\ old.sortBy # k => new.sortOrder = "desc"
               /\ new.favorites = old.favorites
               /\ new.viewMode = old.viewMode
               /\ new.selectedIdea = old.selectedIdea]_vars

\* Two clicks on urgency were made and the order is asc, with a favourite
\* kept in the widget state.
C25_Witness ==
    /\ ideasList.sortClicks = 2
    /\ ideasList.clicked = "urgency"
    /\ ideasList.ws.sortBy = "urgency" /\ ideasList.ws.sortOrder = "asc"
    /\ ideasList.ws.favorites = "[i1]"
    /\ ideasList.window.isNull

====
